---- MODULE Spec2Model ----
(* Browser command layer of clawler: the module-level singleton `browser`    *)
(* (src/tools.ts), the 31 tool handlers that share it, closeBrowser, and the *)
(* start-up flag handling of src/index.ts.  Every `await` of a handler is a  *)
(* suspension point, so a handler is a small process: one action per segment *)
(* of code between two awaits.  Spec runs the handlers one at a time (the    *)
(* agent loop awaits each result); SpecConc lets two handlers interleave.    *)
EXTENDS Integers, Sequences, FiniteSets

VARIABLES
  browser,      \* tools.ts:6   module variable: Null or the id of a BrowserManager
  managers,     \* every BrowserManager constructed so far, indexed by id
  launchCount,  \* number of BrowserManager.launch calls made so far
  showBrowser,  \* index.ts:7   argv holds --no-headless or --show-browser
  browserConfig,\* index.ts:8   the object whose headless field the flag clears
  mainpc,       \* position of index.ts: start-up, agent query, closeBrowser
  pc,           \* per handler slot: the await it is suspended at, or "idle"
  cmd,          \* per handler slot: the tool being (or last) run
  args,         \* per handler slot: the arguments of that invocation
  b,            \* per handler slot: the local `b` returned by getBrowser()
  target,       \* per handler slot: the manager whose launch/close is awaited
  steps,        \* per handler slot: awaited driver calls still to make
  result,       \* per handler slot: what the last invocation handed back
  calls,        \* per handler slot: BrowserManager calls of this invocation
  pre,          \* per handler slot: the session handle as the invocation began
  raised,       \* per handler slot: an exception was raised inside the try block
  invoked,      \* number of handler invocations begun
  returned,     \* number of envelopes handed back to the framework
  lastTimeout,  \* the manager the most recently settled command timed out on
  mainCalls     \* BrowserManager calls made by closeBrowser for index.ts

vars == <<browser, managers, launchCount, showBrowser, browserConfig, mainpc, mainCalls,
          pc, cmd, args, b, target, steps, result, calls, pre, raised, invoked,
          returned, lastTimeout>>

hvars == <<pc, cmd, args, b, target, steps, result, calls, pre, raised, invoked,
           returned, lastTimeout>>

locals == <<cmd, args, b, target, steps, calls, pre>>

-----------------------------------------------------------------------------
(* Bounds *)

\* total number of tool invocations the agent loop makes in one run
MaxCmds == 5

\* number of tool invocations in a run whose handlers interleave
MaxInterleaved == 3

\* number of tabs a session may hold at once
MaxTabs == 2

-----------------------------------------------------------------------------
(* Values *)

Null == 0

Handlers == {"h1", "h2"}

Commands ==
  { "browser_launch", "browser_navigate", "browser_back", "browser_forward",
    "browser_reload", "browser_click", "browser_hover", "browser_fill",
    "browser_type", "browser_select", "browser_check", "browser_uncheck",
    "browser_press", "browser_scroll", "browser_screenshot", "browser_snapshot",
    "browser_get_text", "browser_get_attribute", "browser_get_url",
    "browser_get_title", "browser_evaluate", "browser_wait_for_selector",
    "browser_wait_for_url", "browser_wait", "browser_new_tab",
    "browser_switch_tab", "browser_list_tabs", "browser_close_tab",
    "browser_mouse_event", "browser_keyboard_event", "browser_close" }

\* browser_wait too begins with `const b = await getBrowser()`
SessionCommands_withWait == Commands \ {"browser_launch", "browser_close"}

\* the handlers whose first statement is `const b = await getBrowser()`
SessionCommands == Commands \ {"browser_launch", "browser_close", "browser_wait"}

\* the prefix of each handler's catch block
ErrorPrefix(c) ==
  CASE c = "browser_launch"            -> "Launch failed: "
    [] c = "browser_navigate"          -> "Navigation failed: "
    [] c = "browser_back"              -> "Back failed: "
    [] c = "browser_forward"           -> "Forward failed: "
    [] c = "browser_reload"            -> "Reload failed: "
    [] c = "browser_click"             -> "Click failed: "
    [] c = "browser_hover"             -> "Hover failed: "
    [] c = "browser_fill"              -> "Fill failed: "
    [] c = "browser_type"              -> "Type failed: "
    [] c = "browser_select"            -> "Select failed: "
    [] c = "browser_check"             -> "Check failed: "
    [] c = "browser_uncheck"           -> "Uncheck failed: "
    [] c = "browser_press"             -> "Press failed: "
    [] c = "browser_scroll"            -> "Scroll failed: "
    [] c = "browser_screenshot"        -> "Screenshot failed: "
    [] c = "browser_snapshot"          -> "Snapshot failed: "
    [] c = "browser_get_text"          -> "Get text failed: "
    [] c = "browser_get_attribute"     -> "Get attribute failed: "
    [] c = "browser_get_url"           -> "Get URL failed: "
    [] c = "browser_get_title"         -> "Get title failed: "
    [] c = "browser_evaluate"          -> "Evaluate failed: "
    [] c = "browser_wait_for_selector" -> "Wait failed: "
    [] c = "browser_wait_for_url"      -> "Wait for URL failed: "
    [] c = "browser_wait"              -> "Wait failed: "
    [] c = "browser_new_tab"           -> "New tab failed: "
    [] c = "browser_switch_tab"        -> "Switch tab failed: "
    [] c = "browser_list_tabs"         -> "List tabs failed: "
    [] c = "browser_close_tab"         -> "Close tab failed: "
    [] c = "browser_mouse_event"       -> "Mouse event failed: "
    [] c = "browser_keyboard_event"    -> "Keyboard event failed: "
    [] OTHER                           -> "Close failed: "

\* the text of each handler's success envelope (its fixed part)
SuccessText(c) ==
  CASE c = "browser_launch"            -> "Browser launched successfully"
    [] c = "browser_navigate"          -> "Navigated to "
    [] c = "browser_back"              -> "Navigated back"
    [] c = "browser_forward"           -> "Navigated forward"
    [] c = "browser_reload"            -> "Page reloaded"
    [] c = "browser_click"             -> "Clicked "
    [] c = "browser_hover"             -> "Hovering over "
    [] c = "browser_fill"              -> "Filled "
    [] c = "browser_type"              -> "Typed into "
    [] c = "browser_select"            -> "Selected in "
    [] c = "browser_check"             -> "Checked "
    [] c = "browser_uncheck"           -> "Unchecked "
    [] c = "browser_press"             -> "Pressed "
    [] c = "browser_scroll"            -> "Scrolled"
    [] c = "browser_screenshot"        -> "Screenshot captured."
    [] c = "browser_snapshot"          -> "Accessibility tree:"
    [] c = "browser_get_text"          -> "(text)"
    [] c = "browser_get_attribute"     -> "(value)"
    [] c = "browser_get_url"           -> "(url)"
    [] c = "browser_get_title"         -> "(title)"
    [] c = "browser_evaluate"          -> "(result)"
    [] c = "browser_wait_for_selector" -> "Element found"
    [] c = "browser_wait_for_url"      -> "URL matched: "
    [] c = "browser_wait"              -> "Waited "
    [] c = "browser_new_tab"           -> "Opened tab "
    [] c = "browser_switch_tab"        -> "Switched to tab "
    [] c = "browser_list_tabs"         -> "(tab list)"
    [] c = "browser_close_tab"         -> "Closed tab "
    [] c = "browser_mouse_event"       -> "Mouse "
    [] c = "browser_keyboard_event"    -> "Keyboard "
    [] OTHER                           -> "Browser closed"

\* the handlers that pass args.selector to b.getLocator
ElementCommands ==
  { "browser_click", "browser_hover", "browser_fill", "browser_type",
    "browser_select", "browser_check", "browser_uncheck", "browser_get_text",
    "browser_get_attribute" }

\* the handlers that do so only when args.selector is given
OptionalElementCommands == {"browser_press", "browser_scroll", "browser_screenshot"}

\* page.goto, page.goBack, page.goForward, page.reload
NavigationCommands ==
  {"browser_navigate", "browser_back", "browser_forward", "browser_reload"}

\* page.waitForSelector, page.waitForURL
WaitCommands == {"browser_wait_for_selector", "browser_wait_for_url"}

\* a timeout argument that was left out
NoTimeout == -1

\* the timeouts, in ms, an agent supplies
Timeouts == {0, 5}

\* the default of the two waits
DefaultTimeout == 30000

\* a selector argument: a CSS selector, or the reference token of a snapshot
Selectors == {"css", "e1"}

\* an index argument that was left out
NoIndex == -1

\* argument objects, reduced to the fields the session and the driver depend on
NoArgs ==
  [headless |-> "omitted", viewport |-> "omitted", url |-> "omitted",
   selector |-> "omitted", index |-> NoIndex, timeout |-> NoTimeout]

ArgsOf(c) ==
  CASE c = "browser_launch" ->
         { [NoArgs EXCEPT !.headless = h, !.viewport = v] :
             h \in {"omitted", "true", "false"}, v \in {"omitted", "given"} }
    [] c = "browser_new_tab" ->
         { [NoArgs EXCEPT !.url = u] : u \in {"omitted", "given"} }
    [] c \in ElementCommands ->
         { [NoArgs EXCEPT !.selector = s] : s \in Selectors }
    [] c \in OptionalElementCommands ->
         { [NoArgs EXCEPT !.selector = s] : s \in Selectors \cup {"omitted"} }
    [] c = "browser_switch_tab" ->
         { [NoArgs EXCEPT !.index = i] : i \in 0..MaxTabs }
    [] c = "browser_close_tab" ->
         { [NoArgs EXCEPT !.index = i] : i \in {NoIndex} \cup 0..MaxTabs }
    [] c \in WaitCommands ->
         { [NoArgs EXCEPT !.timeout = t] : t \in {NoTimeout} \cup Timeouts }
    [] OTHER -> {NoArgs}

\* number of awaited driver calls a session command makes after getBrowser
AwaitedCalls(c, a) ==
  CASE c = "browser_get_url"  -> 0
    [] c = "browser_navigate" -> 2
    [] c = "browser_new_tab"  -> IF a.url = "given" THEN 2 ELSE 1
    [] OTHER                  -> 1

-----------------------------------------------------------------------------
(* Result envelopes *)

NoResult == [kind |-> "none"]

\* what a driver call resolved with, as far as a handler prints it
NoData == [index |-> NoIndex, total |-> 0, active |-> NoIndex]

SuccessWith(text, data) ==
  [kind |-> "envelope", isError |-> FALSE, text |-> <<text, "">>, data |-> data]

Success(text) == SuccessWith(text, NoData)

Failure(c, message) ==
  [kind |-> "envelope", isError |-> TRUE, text |-> <<ErrorPrefix(c), message>>,
   data |-> NoData]

Thrown(c, message) == [kind |-> "thrown", message |-> message]

\* a handler without its catch block: the exception leaves the handler
Catch_rethrow(c, message) == Thrown(c, message)

\* a catch block that returns its text without the isError field
Catch_unmarked(c, message) == [Failure(c, message) EXCEPT !.isError = FALSE]

\* the catch block that closes every handler body
Catch(c, message) == Failure(c, message)

-----------------------------------------------------------------------------
(* BrowserManager, as the handlers use it *)

Ids == 1..Len(managers)

isLaunched(m) == managers[m].state \in {"launched", "closing"}

\* `browser` refers to a launched manager
Live == browser # Null /\ isLaunched(browser)

LaunchedIds == {m \in Ids : isLaunched(m)}

\* the documents a page may show, and the reference tokens a snapshot of each
\* mints, in document order
Docs == {"blank", "A"}

Tokens(doc) == IF doc = "A" THEN {"e1"} ELSE {}

\* the pages of a session that has just been launched: one blank tab, active,
\* and no snapshot taken.  tabs/active are the tab registry, doc the document
\* of the active page, refs the current reference table; last and old record
\* the tokens minted by the latest and by the superseded snapshots, stale the
\* tokens minted before a navigation, nav that the page has navigated since
\* the latest snapshot
FreshPages ==
  [tabs |-> 1, active |-> 0, doc |-> "blank", refs |-> {}, last |-> {}, old |-> {},
   stale |-> {}, nav |-> FALSE]

\* new BrowserManager() followed by the call of launch(cfg) on it
Constructed(by, headless, viewport, arg) ==
  [state |-> "launching", by |-> by, headless |-> headless,
   viewport |-> viewport, headlessArg |-> arg, pages |-> FreshPages]

\* a manager nothing refers to any more and that holds no browser process
Collected ==
  [state |-> "collected", by |-> "none", headless |-> TRUE,
   viewport |-> "omitted", headlessArg |-> "omitted", pages |-> FreshPages]

Refs(br, bs, ts) == {br} \cup {bs[h] : h \in Handlers} \cup {ts[h] : h \in Handlers}

Sweep(ms, refs) ==
  [i \in DOMAIN ms |->
     IF i \notin refs /\ ms[i].state \in {"created", "closed"} THEN Collected ELSE ms[i]]

WithState(m, s) == [managers EXCEPT ![m].state = s]

\* BrowserManager.close() is called on m
CloseBegins(m) ==
  [managers EXCEPT ![m].state = IF @ = "launched" THEN "closing" ELSE @]

\* that call resolves: the browser process and its pages are gone
CloseEnds(m) ==
  [managers EXCEPT ![m].state = IF @ \in {"launched", "closing"} THEN "closed" ELSE @,
                   ![m].pages = FreshPages]

\* that call rejects
CloseFails(m) ==
  [managers EXCEPT ![m].state = IF @ = "closing" THEN "launched" ELSE @]

CallEntry(op, m) ==
  [op |-> op, mgr |-> m, launched |-> (m # Null /\ isLaunched(m)),
   call |-> "", data |-> NoData, done |-> FALSE, value |-> "none",
   timeout |-> NoTimeout]

\* a driver call made by a session command, by the name of the method
ActionEntry(call, m) == [CallEntry("action", m) EXCEPT !.call = call]

\* the timeout option of the two waits: args.timeout || 30000
TimeoutOption(a) ==
  IF a.timeout = NoTimeout \/ a.timeout = 0 THEN DefaultTimeout ELSE a.timeout

\* the timeout a command hands to the driver with its first call, if any
HandedTimeout(c, a) == IF c \in WaitCommands THEN TimeoutOption(a) ELSE NoTimeout

\* the driver call a session command makes when `remaining` awaited calls are
\* still to come
DriverOp(c, a, remaining) ==
  CASE c = "browser_navigate"    -> IF remaining = 2 THEN "goto" ELSE "title"
    [] c \in NavigationCommands  -> "goto"
    [] c = "browser_new_tab"     -> IF a.url = "given" /\ remaining = 1
                                    THEN "goto" ELSE "newTab"
    [] c = "browser_snapshot"    -> "getSnapshot"
    [] c = "browser_switch_tab"  -> "switchTo"
    [] c = "browser_list_tabs"   -> "listTabs"
    [] c = "browser_close_tab"   -> "closeTab"
    [] c \in {"browser_wait_for_selector", "browser_wait_for_url"} -> "wait"
    [] c \in {"browser_mouse_event", "browser_keyboard_event"}     -> "inject"
    [] OTHER                     -> "act"

\* the handler reaches the page through b.getPage() or b.getLocator(..)
UsesPage(c) ==
  c \notin {"browser_snapshot", "browser_new_tab", "browser_switch_tab",
            "browser_list_tabs", "browser_close_tab", "browser_mouse_event",
            "browser_keyboard_event"}

\* the handler passes args.selector to b.getLocator
UsesLocator(c, a) ==
  \/ c \in ElementCommands
  \/ c \in OptionalElementCommands /\ a.selector # "omitted"

\* the handler hands every selector to the driver as a CSS selector
LocatorArg_css(a) == "css"

\* b.getLocator(args.selector): the string goes to the driver as the agent gave it
LocatorArg(a) == a.selector

\* the handler takes a snapshot of its own before it resolves the selector
BeforeResolve_resnapshot(pg) == [pg EXCEPT !.refs = Tokens(pg.doc)]

\* what a handler does to the pages between getBrowser() and b.getLocator(..):
\* nothing, it makes no driver call in between
BeforeResolve(pg) == pg

\* the table b.getLocator resolves against: the one the last snapshot left
ResolverTable(pg) == pg.refs

\* b.getPage() / b.getLocator(..) throw: the message, or "" when they return
SyncFailure(pg, c, a) ==
  IF ~UsesPage(c) THEN ""
  ELSE IF pg.tabs = 0 THEN "No page"
  ELSE IF UsesLocator(c, a) /\ LocatorArg(a) # "css"
          /\ LocatorArg(a) \notin ResolverTable(BeforeResolve(pg))
       THEN "Unknown reference"
  ELSE ""

\* the handler closes or switches to the first tab whatever index it is given
IndexArg_first(a) == 0

\* b.switchTo(args.index), b.closeTab(args.index): the index as the agent gave it
IndexArg(a) == a.index

\* the awaited driver call is one the driver accepts
Valid(pg, op, a) ==
  CASE op = "switchTo" -> IndexArg(a) \in 0..(pg.tabs - 1)
    [] op = "closeTab" ->
         pg.tabs > 0 /\ (IndexArg(a) = NoIndex \/ IndexArg(a) \in 0..(pg.tabs - 1))
    [] op \in {"getSnapshot", "inject"} -> pg.tabs > 0
    [] OTHER -> TRUE

\* the message the driver rejects the call with
Rejection(pg, op, a) ==
  IF ~Valid(pg, op, a)
  THEN IF op \in {"switchTo", "closeTab"} /\ pg.tabs > 0
       THEN "Index out of range" ELSE "No page"
  ELSE IF op = "wait" THEN "Timeout" ELSE "driver error"

\* the tab closeTab closes
Closing(pg, a) == IF IndexArg(a) = NoIndex THEN pg.active ELSE IndexArg(a)

\* the tabs that may be active once tab k is closed
Promoted(pg, k) ==
  IF pg.tabs = 1 THEN {NoIndex}
  ELSE IF k < pg.active THEN {pg.active - 1}
  ELSE IF k > pg.active THEN {pg.active}
  ELSE 0..(pg.tabs - 2)

\* the pages after the call has resolved, with what the call resolved with
Resolved(pg, op, a) ==
  CASE op = "goto" ->
         { [pages |-> [pg EXCEPT !.doc = d, !.refs = {}, !.nav = TRUE,
                                 !.stale = pg.old \cup pg.last],
            data |-> NoData] : d \in Docs }
    [] op = "getSnapshot" ->
         { [pages |-> [pg EXCEPT !.refs = Tokens(pg.doc), !.last = Tokens(pg.doc),
                                 !.old = pg.old \cup pg.last, !.nav = FALSE],
            data |-> NoData] }
    [] op = "newTab" ->
         { [pages |-> [pg EXCEPT !.tabs = pg.tabs + 1, !.active = pg.tabs,
                                 !.doc = "blank", !.refs = {}],
            data |-> [index |-> pg.tabs, total |-> pg.tabs + 1, active |-> pg.tabs]] }
    [] op = "switchTo" ->
         { [pages |-> IF IndexArg(a) = pg.active THEN pg
                      ELSE [pg EXCEPT !.active = IndexArg(a), !.doc = d, !.refs = {}],
            data |-> [index |-> IndexArg(a), total |-> pg.tabs, active |-> IndexArg(a)]] :
             d \in IF IndexArg(a) = pg.active THEN {pg.doc} ELSE Docs }
    [] op = "closeTab" ->
         { [pages |-> IF Closing(pg, a) # pg.active
                      THEN [pg EXCEPT !.tabs = pg.tabs - 1, !.active = k]
                      ELSE [pg EXCEPT !.tabs = pg.tabs - 1, !.active = k,
                                      !.doc = d, !.refs = {}],
            data |-> [index |-> Closing(pg, a), total |-> pg.tabs - 1, active |-> k]] :
             k \in Promoted(pg, Closing(pg, a)),
             d \in IF Closing(pg, a) # pg.active THEN {pg.doc}
                   ELSE IF pg.tabs = 1 THEN {"blank"} ELSE Docs }
    [] op = "listTabs" ->
         { [pages |-> pg,
            data |-> [index |-> NoIndex, total |-> pg.tabs, active |-> pg.active]] }
    [] OTHER -> { [pages |-> pg, data |-> NoData] }

\* the kinds of value the last awaited call of a command may resolve with
Values(c) ==
  IF c = "browser_evaluate" THEN {"string", "json", "bigint"} ELSE {"value"}

\* building the text of the success envelope throws on this value:
\* JSON.stringify of a value that JSON cannot represent
Unprintable(c, v) == c = "browser_evaluate" /\ v = "bigint"

\* the return statement prints what the last awaited call resolved with
Printed_last(log) == IF log = << >> THEN NoData ELSE log[Len(log)].data

\* the driver result the return statement of a handler prints
Printed(log) ==
  IF \E i \in DOMAIN log : log[i].call = "newTab"
  THEN log[CHOOSE i \in DOMAIN log : log[i].call = "newTab"].data
  ELSE IF log = << >> THEN NoData ELSE log[Len(log)].data

-----------------------------------------------------------------------------
(* Initial state: index.ts:5-9 has run, no BrowserManager exists *)

NoPre ==
  [browser |-> Null, live |-> FALSE, launchCount |-> 0, session |-> Collected,
   after |-> Null]

Init ==
  /\ browser = Null
  /\ managers = << >>
  /\ launchCount = 0
  /\ showBrowser \in BOOLEAN
  /\ browserConfig = [headless |-> ~showBrowser]
  /\ mainpc = "query"
  /\ mainCalls = << >>
  /\ pc = [h \in Handlers |-> "idle"]
  /\ cmd = [h \in Handlers |-> "none"]
  /\ args = [h \in Handlers |-> NoArgs]
  /\ b = [h \in Handlers |-> Null]
  /\ target = [h \in Handlers |-> Null]
  /\ steps = [h \in Handlers |-> 0]
  /\ result = [h \in Handlers |-> NoResult]
  /\ calls = [h \in Handlers |-> << >>]
  /\ pre = [h \in Handlers |-> NoPre]
  /\ raised = [h \in Handlers |-> FALSE]
  /\ invoked = 0
  /\ returned = 0
  /\ lastTimeout = Null

-----------------------------------------------------------------------------
(* The shape every handler shares *)

AllIdle == \A h \in Handlers : pc[h] = "idle"

\* the framework calls the handler of tool c with arguments a
Invoke(p, c, a) ==
  /\ mainpc = "query"
  /\ pc[p] = "idle"
  /\ invoked < MaxCmds
  /\ cmd' = [cmd EXCEPT ![p] = c]
  /\ args' = [args EXCEPT ![p] = a]
  /\ invoked' = invoked + 1
  /\ pre' = [pre EXCEPT ![p] =
               [browser |-> browser, live |-> Live, launchCount |-> launchCount,
                session |-> IF browser = Null THEN Collected ELSE managers[browser],
                after |-> lastTimeout]]

\* the handler suspends at an await
Suspend(p, at) ==
  /\ pc' = [pc EXCEPT ![p] = at]
  /\ result' = [result EXCEPT ![p] = NoResult]
  /\ UNCHANGED <<returned, raised, lastTimeout>>

\* the handler's promise settles: with an envelope, or with an exception
Settle(p, r) ==
  /\ pc' = [pc EXCEPT ![p] = "returned"]
  /\ result' = [result EXCEPT ![p] = r]
  /\ returned' = IF r.kind = "envelope" THEN returned + 1 ELSE returned
  /\ lastTimeout' = IF r.kind = "envelope" /\ r.isError /\ r.text[2] = "Timeout"
                    THEN b[p] ELSE Null

\* the try block runs to one of its return statements
Finish(p, r) == Settle(p, r) /\ UNCHANGED raised

\* a statement of the try block throws: control passes to the catch block
Raise(p, message) ==
  /\ raised' = [raised EXCEPT ![p] = TRUE]
  /\ Settle(p, Catch(cmd[p], message))

Log(p, entry) == calls' = [calls EXCEPT ![p] = Append(@, entry)]

\* the framework hands the settled result to the agent loop; the invocation's
\* locals are gone
Deliver(p) ==
  /\ pc[p] = "returned"
  /\ pc' = [pc EXCEPT ![p] = "idle"]
  /\ cmd' = [cmd EXCEPT ![p] = "none"]
  /\ args' = [args EXCEPT ![p] = NoArgs]
  /\ b' = [b EXCEPT ![p] = Null]
  /\ target' = [target EXCEPT ![p] = Null]
  /\ steps' = [steps EXCEPT ![p] = 0]
  /\ result' = [result EXCEPT ![p] = NoResult]
  /\ calls' = [calls EXCEPT ![p] = << >>]
  /\ pre' = [pre EXCEPT ![p] = NoPre]
  /\ raised' = [raised EXCEPT ![p] = FALSE]
  /\ UNCHANGED <<browser, launchCount, showBrowser, browserConfig, mainpc, mainCalls,
                 invoked, returned, lastTimeout>>
  /\ managers' = Sweep(managers, Refs(browser', b', target'))

-----------------------------------------------------------------------------
(* browser_launch, tools.ts:34-51 *)

\* line 36 left out: launch always replaces the manager
AlreadyRunning_never == FALSE

\* line 36 with the test negated
AlreadyRunning_inverted == browser # Null /\ ~isLaunched(browser)

\* line 36: browser?.isLaunched()
AlreadyRunning == browser # Null /\ isLaunched(browser)

\* line 41: args.headless ?? true
LaunchHeadless(a) == IF a.headless = "omitted" THEN TRUE ELSE a.headless = "true"

browserLaunch(p, a) ==
  /\ Invoke(p, "browser_launch", a)
  /\ calls' = [calls EXCEPT ![p] =
                 IF browser = Null THEN << >> ELSE <<CallEntry("isLaunched", browser)>>]
  /\ UNCHANGED <<showBrowser, browserConfig, mainpc, mainCalls, b, steps>>
  /\ IF AlreadyRunning
     THEN /\ Finish(p, Success("Browser already running"))
          /\ UNCHANGED <<browser, managers, launchCount, target>>
     ELSE /\ browser' = Len(managers) + 1
          /\ launchCount' = launchCount + 1
          /\ target' = [target EXCEPT ![p] = Len(managers) + 1]
          /\ Suspend(p, "launch_await")
          /\ managers' = Sweep(
               Append(managers,
                 Constructed("browserLaunch", LaunchHeadless(a), a.viewport, a.headless)),
               Refs(browser', b', target'))

\* line 40 resolves, line 44 returns
LaunchResolved(p) ==
  /\ pc[p] = "launch_await"
  /\ managers' = WithState(target[p], "launched")
  /\ Finish(p, Success(SuccessText(cmd[p])))
  /\ UNCHANGED <<browser, launchCount, showBrowser, browserConfig, mainpc, mainCalls,
                 locals, invoked>>

\* line 40 rejects, the catch block of lines 45-50 returns
LaunchRejected(p) ==
  /\ pc[p] = "launch_await"
  /\ managers' = WithState(target[p], "created")
  /\ Raise(p, "launch error")
  /\ UNCHANGED <<browser, launchCount, showBrowser, browserConfig, mainpc, mainCalls,
                 locals, invoked>>

-----------------------------------------------------------------------------
(* getBrowser, tools.ts:8-20, as the first statement of a session command *)

\* line 9 left out: every getBrowser call launches
NeedsLaunch_always == TRUE

\* line 9 never taken: getBrowser returns the module variable as it is
NeedsLaunch_never == FALSE

\* line 9: !browser
NeedsLaunch == browser = Null

\* line 14: the headless flag getBrowser launches with
DefaultHeadless == TRUE

\* `const b = await getBrowser()` up to the first suspension
SessionCommand(p, c, a) ==
  /\ c \in SessionCommands
  /\ Invoke(p, c, a)
  /\ steps' = [steps EXCEPT ![p] = AwaitedCalls(c, a)]
  /\ calls' = [calls EXCEPT ![p] = << >>]
  /\ UNCHANGED <<showBrowser, browserConfig, mainpc, mainCalls>>
  /\ IF NeedsLaunch
     THEN /\ managers' = Append(managers,
                Constructed("getBrowser", DefaultHeadless, "omitted", "omitted"))
          /\ browser' = Len(managers) + 1
          /\ launchCount' = launchCount + 1
          /\ target' = [target EXCEPT ![p] = Len(managers) + 1]
          /\ b' = [b EXCEPT ![p] = Null]
          /\ Suspend(p, "getBrowser_launch")
     ELSE /\ b' = [b EXCEPT ![p] = browser]
          /\ Suspend(p, "getBrowser_await")
          /\ UNCHANGED <<browser, managers, launchCount, target>>

\* line 11 resolves, line 19 returns the module variable as it is now
getBrowserLaunchResolved(p) ==
  /\ pc[p] = "getBrowser_launch"
  /\ managers' = WithState(target[p], "launched")
  /\ b' = [b EXCEPT ![p] = browser]
  /\ Suspend(p, "getBrowser_await")
  /\ UNCHANGED <<browser, launchCount, showBrowser, browserConfig, mainpc, mainCalls,
                 cmd, args, target, steps, calls, pre, invoked>>

\* line 11 rejects: getBrowser throws, the handler's catch block returns
getBrowserLaunchRejected(p) ==
  /\ pc[p] = "getBrowser_launch"
  /\ managers' = WithState(target[p], "created")
  /\ Raise(p, "launch error")
  /\ UNCHANGED <<browser, launchCount, showBrowser, browserConfig, mainpc, mainCalls,
                 locals, invoked>>

\* the handler resumes with b and makes its first driver call
\* (b.getPage(), b.getLocator(..), b.getSnapshot(..), b.newTab(), ...)
DriverCall(p) ==
  /\ pc[p] = "getBrowser_await"
  /\ IF b[p] = Null
     THEN /\ Raise(p, "TypeError")
          /\ UNCHANGED calls
     ELSE /\ Log(p, [ActionEntry(DriverOp(cmd[p], args[p], steps[p]), b[p])
                       EXCEPT !.timeout = HandedTimeout(cmd[p], args[p])])
          /\ IF ~isLaunched(b[p])
             THEN Raise(p, "Browser not launched")
             ELSE IF SyncFailure(managers[b[p]].pages, cmd[p], args[p]) # ""
                  THEN Raise(p, SyncFailure(managers[b[p]].pages, cmd[p], args[p]))
                  ELSE IF steps[p] = 0
                       THEN Finish(p, Success(SuccessText(cmd[p])))
                       ELSE Suspend(p, "action_await")
  /\ UNCHANGED <<browser, managers, launchCount, showBrowser, browserConfig, mainpc,
                 mainCalls, cmd, args, b, target, steps, pre, invoked>>

\* an awaited driver call resolves; the last one is followed by the return
ActionResolved(p) ==
  /\ pc[p] = "action_await"
  /\ isLaunched(b[p])
  /\ LET pg  == managers[b[p]].pages
         op  == DriverOp(cmd[p], args[p], steps[p])
         got(r, v) == [calls[p] EXCEPT ![Len(calls[p])].data = r.data,
                                       ![Len(calls[p])].done = TRUE,
                                       ![Len(calls[p])].value = v]
     IN  /\ Valid(pg, op, args[p])
         /\ op = "newTab" => pg.tabs < MaxTabs
         /\ \E r \in Resolved(pg, op, args[p]) :
              /\ managers' = [managers EXCEPT ![b[p]].pages = r.pages]
              /\ IF steps[p] = 1
                 THEN \E v \in Values(cmd[p]) :
                      /\ calls' = [calls EXCEPT ![p] = got(r, v)]
                      /\ IF Unprintable(cmd[p], v)
                         THEN Raise(p, "Do not know how to serialize")
                         ELSE Finish(p, SuccessWith(SuccessText(cmd[p]),
                                                    Printed(got(r, v))))
                 ELSE /\ calls' = [calls EXCEPT ![p] =
                           Append(got(r, "value"),
                             ActionEntry(DriverOp(cmd[p], args[p], steps[p] - 1), b[p]))]
                      /\ Suspend(p, "action_await")
  /\ steps' = [steps EXCEPT ![p] = @ - 1]
  /\ UNCHANGED <<browser, launchCount, showBrowser, browserConfig, mainpc,
                 mainCalls, cmd, args, b, target, pre, invoked>>

\* an awaited driver call rejects (timeout, bad index, ...): the driver's
\* state is as it was before the call
ActionRejected(p) ==
  /\ pc[p] = "action_await"
  /\ Raise(p, IF isLaunched(b[p])
              THEN Rejection(managers[b[p]].pages, DriverOp(cmd[p], args[p], steps[p]),
                             args[p])
              ELSE "Browser not launched")
  /\ UNCHANGED <<browser, managers, launchCount, showBrowser, browserConfig, mainpc,
                 mainCalls, locals, invoked>>

-----------------------------------------------------------------------------
(* browser_wait, tools.ts:585-595: a timer, no session *)

browserWait(p, a) ==
  /\ Invoke(p, "browser_wait", a)
  /\ calls' = [calls EXCEPT ![p] = << >>]
  /\ Suspend(p, "wait_await")
  /\ UNCHANGED <<browser, managers, launchCount, showBrowser, browserConfig, mainpc,
                 mainCalls, b, target, steps>>

WaitResolved(p) ==
  /\ pc[p] = "wait_await"
  /\ Finish(p, Success(SuccessText(cmd[p])))
  /\ UNCHANGED <<browser, managers, launchCount, showBrowser, browserConfig, mainpc,
                 mainCalls, locals, invoked>>

-----------------------------------------------------------------------------
(* browser_close, tools.ts:770-783 *)

\* line 772 left out: close is called whatever the handle holds
HasBrowser_always == TRUE

\* line 772: if (browser)
HasBrowser == browser # Null

browserClose(p, a) ==
  /\ Invoke(p, "browser_close", a)
  /\ UNCHANGED <<browser, launchCount, showBrowser, browserConfig, mainpc, mainCalls,
                 b, steps>>
  /\ IF HasBrowser
     THEN /\ calls' = [calls EXCEPT ![p] = <<CallEntry("close", browser)>>]
          /\ target' = [target EXCEPT ![p] = browser]
          /\ managers' = CloseBegins(browser)
          /\ Suspend(p, "close_await")
     ELSE /\ calls' = [calls EXCEPT ![p] = << >>]
          /\ Finish(p, Success(SuccessText("browser_close")))
          /\ UNCHANGED <<managers, target>>

\* line 773 resolves, line 774 clears the module variable, line 776 returns
CloseResolved(p) ==
  /\ pc[p] = "close_await"
  /\ managers' = CloseEnds(target[p])
  /\ browser' = Null
  /\ Finish(p, Success(SuccessText(cmd[p])))
  /\ UNCHANGED <<launchCount, showBrowser, browserConfig, mainpc, mainCalls,
                 locals, invoked>>

\* line 773 rejects, the catch block of lines 777-782 returns
CloseRejected(p) ==
  /\ pc[p] = "close_await"
  /\ managers' = CloseFails(target[p])
  /\ Raise(p, "close error")
  /\ UNCHANGED <<browser, launchCount, showBrowser, browserConfig, mainpc, mainCalls,
                 locals, invoked>>

-----------------------------------------------------------------------------
(* closeBrowser, tools.ts:834-839, called by runCrawler (index.ts:64) once the *)
(* agent's message stream has ended                                           *)

closeBrowser ==
  /\ mainpc = "query"
  /\ AllIdle
  /\ IF HasBrowser
     THEN /\ mainCalls' = Append(mainCalls, CallEntry("close", browser))
          /\ managers' = CloseBegins(browser)
          /\ mainpc' = "closeBrowser_await"
     ELSE /\ mainpc' = "done"
          /\ UNCHANGED <<mainCalls, managers>>
  /\ UNCHANGED <<browser, launchCount, showBrowser, browserConfig, hvars>>

\* line 836 resolves, line 837 clears the module variable
closeBrowserResolved ==
  /\ mainpc = "closeBrowser_await"
  /\ browser' = Null
  /\ mainpc' = "done"
  /\ UNCHANGED <<launchCount, showBrowser, browserConfig, mainCalls, hvars>>
  /\ managers' = Sweep(CloseEnds(browser), Refs(browser', b', target'))

\* line 836 rejects: closeBrowser has no catch, runCrawler's promise rejects
closeBrowserRejected ==
  /\ mainpc = "closeBrowser_await"
  /\ managers' = CloseFails(browser)
  /\ mainpc' = "threw"
  /\ UNCHANGED <<browser, launchCount, showBrowser, browserConfig, mainCalls, hvars>>

-----------------------------------------------------------------------------
(* runCrawler, index.ts:11-65: neither the loop over the agent's messages nor *)
(* the printUsage call is inside a try block                                  *)

\* lines 24-57: query(..) or the loop body raises; runCrawler's promise rejects
streamRaises ==
  /\ mainpc = "query"
  /\ AllIdle
  /\ mainpc' = "stream_raised"
  /\ UNCHANGED <<browser, managers, launchCount, showBrowser, browserConfig,
                 mainCalls, hvars>>

\* lines 60-62: the stream has ended and printUsage(resultMessage) raises
printUsageRaises ==
  /\ mainpc = "query"
  /\ AllIdle
  /\ mainpc' = "printUsage_raised"
  /\ UNCHANGED <<browser, managers, launchCount, showBrowser, browserConfig,
                 mainCalls, hvars>>

\* the positions at which runCrawler has terminated
Terminated == {"done", "threw", "stream_raised", "printUsage_raised"}

-----------------------------------------------------------------------------
(* Specifications *)

\* a handler that is suspended at an await takes its next step
Resume(p) ==
  \/ LaunchResolved(p)
  \/ LaunchRejected(p)
  \/ getBrowserLaunchResolved(p)
  \/ getBrowserLaunchRejected(p)
  \/ DriverCall(p)
  \/ ActionResolved(p)
  \/ ActionRejected(p)
  \/ WaitResolved(p)
  \/ CloseResolved(p)
  \/ CloseRejected(p)
  \/ Deliver(p)

\* the framework invokes one of the 31 handlers
Call(p) ==
  \/ \E a \in ArgsOf("browser_launch") : browserLaunch(p, a)
  \/ \E c \in SessionCommands : \E a \in ArgsOf(c) : SessionCommand(p, c, a)
  \/ \E a \in ArgsOf("browser_wait") : browserWait(p, a)
  \/ \E a \in ArgsOf("browser_close") : browserClose(p, a)

Main ==
  \/ closeBrowser
  \/ closeBrowserResolved
  \/ closeBrowserRejected
  \/ streamRaises
  \/ printUsageRaises

\* commands issued one at a time: each handler runs to completion before the next
Next ==
  \/ \E p \in Handlers : AllIdle /\ Call(p)
  \/ \E p \in Handlers : Resume(p)
  \/ Main

Spec == Init /\ [][Next]_vars

\* one session command for each number of awaited driver calls
Interleaved == {"browser_get_url", "browser_click", "browser_navigate"}

CallInterleaved(p) ==
  \/ \E a \in ArgsOf("browser_launch") : browserLaunch(p, a)
  \/ \E c \in Interleaved : \E a \in ArgsOf(c) : SessionCommand(p, c, a)
  \/ \E a \in ArgsOf("browser_wait") : browserWait(p, a)
  \/ \E a \in ArgsOf("browser_close") : browserClose(p, a)

\* handlers may interleave at their await points
NextConc ==
  \/ \E p \in Handlers : invoked < MaxInterleaved /\ CallInterleaved(p)
  \/ \E p \in Handlers : Resume(p)
  \/ Main

SpecConc == Init /\ [][NextConc]_vars

-----------------------------------------------------------------------------
(* Properties *)

Settled(h) == pc[h] = "returned"

Running(h) == pc[h] \notin {"idle", "returned"}

BetweenCommands == \A h \in Handlers : ~Running(h)

\* C1: with commands issued one at a time and any driver call allowed to fail,
\* every launched BrowserManager is the one `browser` refers to: there is never
\* more than one, and `browser` is never overwritten or cleared while the
\* manager it refers to is launched and not closed.
C1_SingleSession ==
  /\ \A m \in LaunchedIds : m = browser
  /\ Cardinality(LaunchedIds) <= 1

\* a second session is live after the first one was closed
C1_Witness ==
  /\ Live
  /\ browser >= 2
  /\ \E h \in Handlers : Settled(h) /\ raised[h]

\* C2: every invocation of a handler hands back exactly one envelope and never
\* throws; when session creation, resolution or the driver action raised, the
\* envelope carries isError = TRUE.
C2_OneEnvelope ==
  /\ \A h \in Handlers : Settled(h) =>
       /\ result[h].kind = "envelope"
       /\ raised[h] => result[h].isError
  /\ \A h \in Handlers : Running(h) => result[h] = NoResult
  /\ returned = invoked - Cardinality({h \in Handlers : Running(h)})

\* a handler whose lazy launch was rejected has returned an error envelope
C2_Witness ==
  \E h \in Handlers :
    /\ Settled(h)
    /\ cmd[h] \in SessionCommands
    /\ raised[h]
    /\ result[h] = Failure(cmd[h], "launch error")

\* C3: between two commands the handle is Absent (null) or Live (non-null and
\* launched); no sequence of commands, failed launches included, leaves it
\* non-null and not launched.
C3_AbsentOrLive == BetweenCommands => (browser = Null \/ Live)

\* C4: no driver action is ever attempted on a BrowserManager that is not
\* launched.
C4_ActionsOnLaunched ==
  \A h \in Handlers : \A i \in DOMAIN calls[h] :
    calls[h][i].op = "action" => calls[h][i].launched

\* C5 as stated: after browser_close returns the handle is Absent.
C5_AbsentAfterClose ==
  \A h \in Handlers : (Settled(h) /\ cmd[h] = "browser_close") => browser = Null

\* C5 (amended): after browser_close returns a success envelope the handle is
\* Absent, and a rejected close gives an error envelope and leaves the handle
\* as it was; browser_close or closeBrowser on an Absent handle makes no driver
\* call, leaves the handle Absent and (browser_close) returns success.
C5_CloseResetsHandle ==
  /\ \A h \in Handlers : (Settled(h) /\ cmd[h] = "browser_close") =>
       /\ ~result[h].isError => browser = Null
       /\ result[h].isError => browser = pre[h].browser
       /\ pre[h].browser = Null =>
            /\ calls[h] = << >>
            /\ browser = Null
            /\ result[h] = Success("Browser closed")
  /\ \A i \in DOMAIN mainCalls : mainCalls[i].mgr # Null
  /\ mainpc = "done" => browser = Null

\* browser_close has returned success on a handle that was already Absent
C5_Witness ==
  \E h \in Handlers :
    /\ Settled(h)
    /\ cmd[h] = "browser_close"
    /\ pre[h].browser = Null
    /\ pre[h].launchCount >= 1
    /\ ~result[h].isError

\* C6: while a Session is live a session command obtains that Session and
\* launches nothing: launch count and `browser` are as they were before it.
C6_GetBrowserIdempotent ==
  \A h \in Handlers : (cmd[h] \in SessionCommands /\ pre[h].live) =>
    /\ b[h] = pre[h].browser
    /\ browser = pre[h].browser
    /\ launchCount = pre[h].launchCount
    /\ managers[browser].by = pre[h].session.by
    /\ \A i \in DOMAIN calls[h] : calls[h][i].mgr = pre[h].browser

\* the third command in a row on a live Session has run against it
C6_Witness ==
  \E h \in Handlers :
    /\ Settled(h)
    /\ cmd[h] \in SessionCommands
    /\ pre[h].live
    /\ invoked >= 3
    /\ launchCount = 1
    /\ ~result[h].isError

\* C7: browser_launch on a live Session returns the non-error envelope
\* "Browser already running", launches nothing and leaves the Session and its
\* launch configuration as they were, whatever headless/viewport it was given.
C7_LaunchWhenLive ==
  \A h \in Handlers : (cmd[h] = "browser_launch" /\ pre[h].live) =>
    /\ Settled(h)
    /\ result[h] = Success("Browser already running")
    /\ launchCount = pre[h].launchCount
    /\ browser = pre[h].browser
    /\ managers[browser] = pre[h].session

\* browser_launch{headless: false, viewport} on a live headless Session
C7_Witness ==
  \E h \in Handlers :
    /\ Settled(h)
    /\ cmd[h] = "browser_launch"
    /\ pre[h].live
    /\ args[h].headless = "false"
    /\ args[h].viewport = "given"
    /\ managers[browser].headless
    /\ managers[browser].viewport = "omitted"

\* the command started on a handle that a successful close had cleared
AfterClose(h) ==
  /\ cmd[h] \in SessionCommands
  /\ pre[h].browser = Null
  /\ pre[h].launchCount >= 1

\* C8 as stated: the session command that follows a successful close always
\* ends with a fresh live Session that it ran against.
C8_AlwaysFreshSession ==
  \A h \in Handlers : (AfterClose(h) /\ Settled(h)) =>
    /\ Live
    /\ b[h] = browser

\* C8 (amended): the session command that follows a successful close always
\* constructs a new BrowserManager and calls launch on it; when that launch
\* resolves the command runs against the fresh live Session, and when it
\* rejects the command returns the launch failure in an error envelope.  It
\* never runs against, or reports, a manager that is not launched.
C8_RelaunchAfterClose ==
  \A h \in Handlers : AfterClose(h) =>
    /\ launchCount = pre[h].launchCount + 1
    /\ browser = Len(managers)
    /\ managers[browser].by = "getBrowser"
    /\ pc[h] \in {"getBrowser_await", "action_await"} => (Live /\ b[h] = browser)
    /\ Settled(h) =>
         IF result[h] = Failure(cmd[h], "launch error")
         THEN ~isLaunched(browser)
         ELSE /\ Live
              /\ b[h] = browser
              /\ calls[h] # << >>
              /\ \A i \in DOMAIN calls[h] :
                   calls[h][i].mgr = browser /\ calls[h][i].launched

\* the second close/command repetition has produced a third Session
C8_Witness ==
  \E h \in Handlers :
    /\ AfterClose(h)
    /\ Settled(h)
    /\ pre[h].launchCount >= 2
    /\ ~result[h].isError

\* C9: getBrowser never hands a handler a BrowserManager whose launch was
\* started by another handler and has not completed.
C9_NoPartialSession ==
  \A h \in Handlers :
    (pc[h] = "getBrowser_await" /\ b[h] # Null) => managers[b[h]].state # "launching"

\* C10: with the headless toggle cleared at start-up, the first Session is
\* launched with headless = FALSE, when getBrowser creates it and when
\* browser_launch without a headless argument creates it.
C10_ToggleHonoured ==
  (showBrowser /\ Len(managers) >= 1 /\ managers[1].headlessArg = "omitted"
     /\ managers[1].by # "none")
    => managers[1].headless = browserConfig.headless

\* a handler has settled after its b.getLocator(..) call was reached with a
\* reference token on a launched session
Resolving(h) ==
  /\ Settled(h)
  /\ UsesLocator(cmd[h], args[h])
  /\ args[h].selector # "css"
  /\ calls[h] # << >>
  /\ calls[h][1].launched
  /\ managers[b[h]].pages.tabs > 0

TabsOf(h) ==
  IF b[h] # Null /\ isLaunched(b[h]) THEN managers[b[h]].pages.tabs ELSE 0

\* a settled browser_switch_tab whose index is not one of the session's tabs
BadSwitch(h) ==
  /\ Settled(h)
  /\ cmd[h] = "browser_switch_tab"
  /\ args[h].index \notin 0..(TabsOf(h) - 1)

\* C14 (as stated): browser_switch_tab with an invalid index returns an error
\* envelope and leaves the handle, the session, its tab list and its active tab
\* as they were before the call.
C14_BadIndexChangesNothing ==
  \A h \in Handlers :
    BadSwitch(h) =>
      /\ result[h].kind = "envelope" /\ result[h].isError
      /\ browser = pre[h].browser
      /\ launchCount = pre[h].launchCount
      /\ browser # Null => managers[browser] = pre[h].session

\* C14: browser_switch_tab with an invalid index returns an error envelope; when
\* a Session was live at the call, the handle, the session, its tab list and
\* its active tab are as they were; when the handle was Absent, the command has
\* first launched a Session, which is left with its initial tab active.
C14_BadIndexLeavesTabs ==
  \A h \in Handlers :
    BadSwitch(h) =>
      /\ result[h].kind = "envelope" /\ result[h].isError
      /\ pre[h].live =>
           /\ browser = pre[h].browser
           /\ launchCount = pre[h].launchCount
           /\ managers[browser] = pre[h].session
      /\ pre[h].browser = Null =>
           /\ browser # Null
           /\ launchCount = pre[h].launchCount + 1
           /\ managers[browser].pages = FreshPages

\* an index past the last of two tabs was refused and both tabs are as before
C14_Witness ==
  \E h \in Handlers :
    /\ BadSwitch(h)
    /\ pre[h].live
    /\ pre[h].session.pages.tabs = 2
    /\ managers[browser] = pre[h].session
    /\ result[h] = Failure(cmd[h], "Index out of range")

\* a settled handler that returned a success envelope
Succeeded(h) == Settled(h) /\ result[h].kind = "envelope" /\ ~result[h].isError

\* the tab count a listing would have shown when the invocation began: that of
\* the live session, or the single tab of the session lazy creation launches
TabsBefore(h) ==
  IF pre[h].live THEN pre[h].session.pages.tabs ELSE FreshPages.tabs

\* C15: after a successful browser_new_tab a browser_list_tabs lists one tab
\* more than before the call and marks the new tab, the last one, as the active
\* tab; the index and total browser_new_tab printed are those of that listing.
C15_NewTabListed ==
  \A h \in Handlers :
    (Succeeded(h) /\ cmd[h] = "browser_new_tab") =>
      /\ b[h] = browser
      /\ \A l \in Resolved(managers[browser].pages, "listTabs", NoArgs) :
           /\ l.data.total = TabsBefore(h) + 1
           /\ l.data.active = l.data.total - 1
           /\ result[h].data.index = l.data.active
           /\ result[h].data.total = l.data.total

\* a tab was opened at a URL next to the one tab of a live session
C15_Witness ==
  \E h \in Handlers :
    /\ Succeeded(h)
    /\ cmd[h] = "browser_new_tab"
    /\ args[h].url = "given"
    /\ pre[h].live
    /\ managers[browser].pages.tabs = 2
    /\ managers[browser].pages.active = 1

\* the pages of the session as the invocation found them: those of the live
\* session, or those of the session lazy creation launches
PagesBefore(h) == IF pre[h].live THEN pre[h].session.pages ELSE FreshPages

\* the tabs a listing of these pages marks as active
ActiveTabs(pg) == {i \in 0..(pg.tabs - 1) : i = pg.active}

\* C16: in every launched session exactly one tab is active when it has tabs
\* and none when it has none; a successful browser_close_tab aimed at the
\* active tab has closed that tab, lowered the tab count by one and left
\* exactly one of the remaining tabs active, or none when none remain.
C16_OneActiveTab ==
  /\ \A m \in LaunchedIds :
       /\ managers[m].pages.tabs \in 0..MaxTabs
       /\ Cardinality(ActiveTabs(managers[m].pages))
            = IF managers[m].pages.tabs > 0 THEN 1 ELSE 0
       /\ managers[m].pages.tabs = 0 => managers[m].pages.active = NoIndex
  /\ \A h \in Handlers :
       (/\ Succeeded(h)
        /\ cmd[h] = "browser_close_tab"
        /\ args[h].index \in {NoIndex, PagesBefore(h).active})
         => /\ result[h].data.index = PagesBefore(h).active
            /\ managers[b[h]].pages.tabs = PagesBefore(h).tabs - 1
            /\ result[h].data.total = managers[b[h]].pages.tabs
            /\ Cardinality(ActiveTabs(managers[b[h]].pages))
                 = IF managers[b[h]].pages.tabs > 0 THEN 1 ELSE 0

\* the active second tab of two was closed without naming it, and the first
\* tab is the active one
C16_Witness ==
  \E h \in Handlers :
    /\ Succeeded(h)
    /\ cmd[h] = "browser_close_tab"
    /\ args[h].index = NoIndex
    /\ PagesBefore(h).tabs = 2
    /\ PagesBefore(h).active = 1
    /\ managers[b[h]].pages.tabs = 1
    /\ managers[b[h]].pages.active = 0

\* a settled wait command that reached its awaited wait, which timed out
TimedOut(h) ==
  /\ Settled(h)
  /\ cmd[h] \in WaitCommands
  /\ raised[h]
  /\ calls[h] # << >>
  /\ calls[h][Len(calls[h])].call = "wait"
  /\ calls[h][Len(calls[h])].launched
  /\ SyncFailure(managers[b[h]].pages, cmd[h], args[h]) = ""

\* C17: a browser_wait_for_selector or browser_wait_for_url that times out
\* returns an error envelope and leaves the session live, with its tabs, active
\* tab and reference table as the command found them; the command that follows
\* gets that same session from getBrowser, without any launch.
C17_TimeoutKeepsSession ==
  \A h \in Handlers :
    /\ TimedOut(h) =>
         /\ result[h] = Failure(cmd[h], "Timeout")
         /\ Live /\ browser = b[h]
         /\ managers[browser].state = "launched"
         /\ managers[browser].pages = PagesBefore(h)
         /\ pre[h].live =>
              /\ browser = pre[h].browser
              /\ launchCount = pre[h].launchCount
              /\ managers[browser] = pre[h].session
    /\ (cmd[h] \in SessionCommands /\ pre[h].after # Null) =>
         /\ pre[h].browser = pre[h].after /\ pre[h].live
         /\ launchCount = pre[h].launchCount
         /\ b[h] = pre[h].after
         /\ \A i \in DOMAIN calls[h] :
              calls[h][i].mgr = pre[h].after /\ calls[h][i].launched

\* a command ran to success on the session of the wait that had just timed out
C17_Witness ==
  \E h \in Handlers :
    /\ Succeeded(h)
    /\ cmd[h] \in SessionCommands
    /\ pre[h].after # Null
    /\ b[h] = pre[h].after
    /\ calls[h] # << >>

\* session creation, the resolution of a selector or a driver call failed in a
\* settled invocation: an exception was raised before the last driver call the
\* handler made had resolved
DriverFailed(h) ==
  /\ raised[h]
  /\ calls[h] = << >> \/ ~calls[h][Len(calls[h])].done

\* every driver call resolved and the handler threw while it was building the
\* text of its success envelope
RenderFailed(h) ==
  /\ raised[h]
  /\ calls[h] # << >>
  /\ calls[h][Len(calls[h])].done
  /\ Unprintable(cmd[h], calls[h][Len(calls[h])].value)

\* C18 (as stated): the envelope of a settled command carries isError exactly
\* when session creation, resolution or a driver call failed.
C18_ErrorIffDriverFailed ==
  \A h \in Handlers :
    Settled(h) =>
      /\ result[h].kind = "envelope"
      /\ result[h].isError <=> DriverFailed(h)

\* C18: the envelope of a settled command carries isError exactly when session
\* creation, resolution or a driver call failed, or when browser_evaluate could
\* not turn the value its script returned into text; the text of an error
\* envelope is the prefix of the command's catch block followed by the message
\* of the failure, and a success envelope carries no error marker.
C18_ErrorIffRaised ==
  \A h \in Handlers :
    Settled(h) =>
      /\ result[h].kind = "envelope"
      /\ result[h].isError <=> (DriverFailed(h) \/ RenderFailed(h))
      /\ result[h].isError =>
           /\ result[h].text[1] = ErrorPrefix(cmd[h])
           /\ result[h].text[2] # ""
           /\ result[h] = Failure(cmd[h], result[h].text[2])
      /\ ~result[h].isError => result[h].text[1] = SuccessText(cmd[h])
                               \/ result[h] = Success("Browser already running")

\* browser_evaluate returned an error envelope although its script had run
C18_Witness ==
  \E h \in Handlers :
    /\ Settled(h)
    /\ RenderFailed(h)
    /\ result[h] = Failure("browser_evaluate", "Do not know how to serialize")

\* the handlers that may launch a BrowserManager
LaunchingCommands == SessionCommands \cup {"browser_launch"}

\* C19: when two handlers that may launch have interleaved, starting from the
\* Absent state, and both have settled, at most one BrowserManager is launched
\* and it is the one `browser` refers to.
C19_OneLaunchWins ==
  (/\ invoked = 2
   /\ \A h \in Handlers : Settled(h) /\ cmd[h] \in LaunchingCommands
   /\ \E h \in Handlers : pre[h].browser = Null /\ pre[h].launchCount = 0)
    => /\ Cardinality(LaunchedIds) <= 1
       /\ \A m \in LaunchedIds : m = browser

\* C20: when browser_close has interleaved with a handler that may launch and
\* both have settled, every launched BrowserManager is the one `browser`
\* refers to, so the `browser = null` that follows the awaited close has not
\* dropped a manager launched in the meantime, and a handler that was told
\* "Browser already running" was not told so about a session that is closed.
C20_CloseKeepsLaunched ==
  \A h1, h2 \in Handlers :
    (/\ launchCount <= 1 \/ invoked = 2
     /\ Settled(h1) /\ cmd[h1] = "browser_close"
     /\ Settled(h2) /\ cmd[h2] \in LaunchingCommands)
      => /\ \A m \in LaunchedIds : m = browser
         /\ result[h2] = Success("Browser already running") => Live

\* C21: the timeout a settled browser_wait_for_selector or browser_wait_for_url
\* handed to the driver is the caller's timeout argument whenever one was
\* supplied, 0 included, and 30000 ms only when the argument was left out.
C21_TimeoutPassedThrough ==
  \A h \in Handlers :
    (Settled(h) /\ cmd[h] \in WaitCommands /\ calls[h] # << >>) =>
      calls[h][1].timeout =
        IF args[h].timeout = NoTimeout THEN DefaultTimeout ELSE args[h].timeout

\* C22 (as stated): a browser_wait that began with the handle Absent and
\* returned successfully leaves a live session.
C22_WaitEnsuresSession ==
  \A h \in Handlers :
    (Succeeded(h) /\ cmd[h] = "browser_wait" /\ pre[h].browser = Null) => Live

\* C22: every command other than launch, close and the fixed-duration wait
\* obtains the session from getBrowser before its action, so that one which
\* returns successfully has made its driver calls on a launched manager and
\* leaves that session live; browser_wait makes no call on any manager and
\* leaves the handle and the session as it found them, Absent included.
C22_WaitNeedsNoSession ==
  \A h \in Handlers :
    /\ (Succeeded(h) /\ cmd[h] \in Commands \ {"browser_launch", "browser_close",
                                               "browser_wait"}) =>
         /\ Live /\ b[h] = browser
         /\ calls[h] # << >>
         /\ \A i \in DOMAIN calls[h] : calls[h][i].mgr = browser /\ calls[h][i].launched
    /\ (Settled(h) /\ cmd[h] = "browser_wait") =>
         /\ Succeeded(h)
         /\ calls[h] = << >>
         /\ browser = pre[h].browser
         /\ launchCount = pre[h].launchCount
         /\ browser # Null => managers[browser] = pre[h].session

\* browser_wait returned successfully with the handle Absent before and after
C22_Witness ==
  \E h \in Handlers :
    /\ Succeeded(h)
    /\ cmd[h] = "browser_wait"
    /\ pre[h].browser = Null
    /\ browser = Null
    /\ LaunchedIds = {}

\* C23: when browser_new_tab, called with a session live, returns an error
\* envelope, the session's tab count and active tab are those it had before
\* the call.
C23_FailedNewTabKeepsTabs ==
  \A h \in Handlers :
    (/\ Settled(h)
     /\ cmd[h] = "browser_new_tab"
     /\ result[h].kind = "envelope" /\ result[h].isError
     /\ pre[h].live)
      => /\ browser = pre[h].browser
         /\ managers[browser].pages.tabs = pre[h].session.pages.tabs
         /\ managers[browser].pages.active = pre[h].session.pages.active

\* C24: once runCrawler has terminated, by returning or by raising, the browser
\* has been closed: the module holds no BrowserManager and none is launched.
C24_ClosedAtExit ==
  mainpc \in Terminated =>
    /\ browser = Null
    /\ LaunchedIds = {}

====
